---- MODULE Spec2Model ----
(***************************************************************************)
(* Model of src/app.py: a read-through cache in front of the Clash of      *)
(* Clans REST API, the roster sort, the leaderboards and the CWL team      *)
(* selection store.                                                        *)
(*                                                                         *)
(* Python objects that are shared by reference (the member dicts of a      *)
(* fetched roster) live in `heap`; lists of members are sequences of heap  *)
(* addresses, so two lists holding the same dict alias each other exactly  *)
(* as in the program.                                                      *)
(***************************************************************************)
EXTENDS Integers, Sequences, FiniteSets, TLC

VARIABLES
    cache,               \* src/app.py:31  key -> [data, timestamp]
    cwl_team_selection,  \* src/app.py:42  [selected_members, last_updated]
    heap,                \* member dicts created by response.json(), by address
    now,                 \* the value datetime.utcnow() returns
    API_KEY,             \* src/app.py:19
    CLAN_TAG,            \* src/app.py:20-21, a string as the sequence of its characters
    call,                \* observation: the operation that ran last
    writeTime,           \* observation: clock value of the last cache write per key
    threads,             \* worker threads: position and locals of the request each runs
    writer,              \* observation: the request that wrote each cache slot
    selWriter,           \* observation: the request that wrote each selection slot
    nreq                 \* observation: number of requests the threads have begun

(* the variables of the thread-level specification *)
tvars == <<threads, writer, selWriter, nreq>>

vars == <<cache, cwl_team_selection, heap, now, API_KEY, CLAN_TAG, call, writeTime, tvars>>

----------------------------------------------------------------------------
(* Bounds *)
MaxTime == 300           \* the clock stops here
MaxCachedKeys == 2       \* at most this many cache keys are populated at once
MaxRequests == 2         \* requests the threads serve in one run

(* Program constants *)
CACHE_DURATION == 300

None == -1               \* Python None in a timestamp slot
NoKey == "<absent>"      \* a dict key that is not present

Keys == {"clan_info", "members", "war_log", "current_war",
         "league_group", "capital_raids", "leagues"}

(* the instants the clock is read at: the ends of the freshness windows *)
Instants == { t \in 0..MaxTime : t % CACHE_DURATION \in {0, CACHE_DURATION - 1} }

----------------------------------------------------------------------------
(* Strings the program inspects character by character are sequences of    *)
(* one-character strings.                                                  *)
Upper == {"A", "B", "C", "D", "E", "F", "G", "H", "I", "J", "K", "L", "M",
          "N", "O", "P", "Q", "R", "S", "T", "U", "V", "W", "X", "Y", "Z"}

Digits == {"0", "1", "2", "3", "4", "5", "6", "7", "8", "9"}

(* src/app.py:20: the default of os.getenv('CLAN_TAG', ...) *)
DefaultClanTag == <<"#", "2", "G", "9", "C", "9", "Q", "C", "L", "2">>

(* src/app.py:21  CLAN_TAG.replace('O', '0') *)
clean_clan_tag(tag) == [i \in 1..Len(tag) |-> IF tag[i] = "O" THEN "0" ELSE tag[i]]

(* src/app.py:27  re.match(r'^#[A-Z0-9]{5,}$', CLAN_TAG); $ also matches   *)
(* before a newline that ends the string                                   *)
clan_tag_matches(tag) ==
    LET n == IF tag # <<>> /\ tag[Len(tag)] = "\n" THEN Len(tag) - 1 ELSE Len(tag)
    IN  /\ n >= 6
        /\ tag[1] = "#"
        /\ \A i \in 2..n : tag[i] \in Upper \cup Digits

----------------------------------------------------------------------------
(* JSON values. shape is the Python type of the value; error is the value  *)
(* of the 'error' key of a dict (NoKey when absent); tok stands for the    *)
(* rest of the content; items is the 'items' list; clan and opponent are   *)
(* the shapes of the current-war sub-objects.                              *)
Json(shape, error, tok, items, clan, opponent) ==
    [shape |-> shape, error |-> error, tok |-> tok, items |-> items,
     clan |-> clan, opponent |-> opponent]

NoData == Json("None", NoKey, "", <<>>, NoKey, NoKey)

ErrDict(msg) == Json("dict", msg, "", <<>>, NoKey, NoKey)

Player(tag, role, trophies, donations, donationsReceived) ==
    [tag |-> tag, role |-> role, trophies |-> trophies, donations |-> donations,
     donationsReceived |-> donationsReceived, selected |-> NoKey]

(* Upstream rosters of the service specification *)
RosterA == << Player("#B", "member", 3, 5, 1), Player("#A", "leader", 1, 0, 5) >>
RosterB == << Player("#A", "admin", 2, 1, 1), Player("#C", "admin", 2, 1, 0) >>
Rosters == { <<>>, RosterA, RosterB }

Tags == {"#A", "#B", "#C"}

(* Sub-object shapes of a current-war payload *)
WarSides == { <<NoKey, "dictNoAttacks">>, <<"dictBadAttacks", "dictAttacks">>,
              <<"notDict", NoKey>> }

(* The JSON bodies the upstream can answer with on a 2xx, per resource *)
OkBodies(key, rosters) ==
    CASE key = "members" ->
             { Json("dict", NoKey, "roster", r, NoKey, NoKey) : r \in rosters }
      [] key = "current_war" ->
             { Json("dict", NoKey, "war", <<>>, s[1], s[2]) : s \in WarSides }
      [] OTHER ->
             { Json("dict", NoKey, key, <<>>, NoKey, NoKey) }

(* The failing outcomes of requests.get(...) enumerated per resource: 429   *)
(* and a transport failure (status 0) for every resource, 403 and another   *)
(* failing status for the roster as well.                                   *)
FailStatuses(key) == IF key = "members" THEN {403, 429, 500, 0} ELSE {429, 0}

(* Outcomes of requests.get(...): a 2xx with a JSON object, a 2xx with a   *)
(* JSON array, a 2xx with an object that has an 'error' key, or a failure. *)
Responses(key, rosters) ==
    { [status |-> 200, json |-> j] : j \in OkBodies(key, rosters) }
    \cup { [status |-> 200, json |-> Json("list", NoKey, "", <<>>, NoKey, NoKey)],
           [status |-> 200, json |-> Json("dict", "body", "", <<>>, NoKey, NoKey)] }
    \cup { [status |-> s, json |-> NoData] : s \in FailStatuses(key) }

NoResp == [status |-> -1, json |-> NoData]

----------------------------------------------------------------------------
(* src/app.py:55-58 *)
is_cache_valid_le(c, cache_key, t) ==
    IF c[cache_key].timestamp = None
    THEN FALSE
    ELSE (t - c[cache_key].timestamp) <= CACHE_DURATION

is_cache_valid_inverted(c, cache_key, t) ==
    IF c[cache_key].timestamp = None
    THEN FALSE
    ELSE (t - c[cache_key].timestamp) > CACHE_DURATION

is_cache_valid(c, cache_key, t) ==
    IF c[cache_key].timestamp = None
    THEN FALSE
    ELSE (t - c[cache_key].timestamp) < CACHE_DURATION

(* make_api_request without the 429 branch of src/app.py:76-77 *)
make_api_request_no_429(key, resp) ==
    IF key = ""
    THEN ErrDict("API key is not configured.")
    ELSE CASE resp.status = 200 -> resp.json
           [] resp.status = 403 -> ErrDict("API request failed: 403 Forbidden")
           [] resp.status = 0   -> ErrDict("API request failed: transport")
           [] OTHER             -> ErrDict("API request failed: status")

(* src/app.py:60-81: the value make_api_request returns for an outcome *)
make_api_request(key, resp) ==
    IF key = ""
    THEN ErrDict("API key is not configured.")
    ELSE CASE resp.status = 200 -> resp.json
           [] resp.status = 403 -> ErrDict("API request failed: 403 Forbidden")
           [] resp.status = 429 -> ErrDict("API rate limit exceeded")
           [] resp.status = 0   -> ErrDict("API request failed: transport")
           [] OTHER             -> ErrDict("API request failed: status")

(* make_api_request issues the HTTP request only past the API_KEY guard *)
Issues(key) == key # ""

(* src/app.py:89  isinstance(data, dict) and 'error' not in data *)
is_success_any_dict(data) == data.shape = "dict"

is_success(data) == data.shape = "dict" /\ data.error = NoKey

(* the error test of the route handlers: isinstance(x, dict) and 'error' in x *)
is_error(data) == data.shape = "dict" /\ data.error # NoKey

----------------------------------------------------------------------------
(* sorted(): CPython decorates each element with its key, runs a stable    *)
(* binary insertion sort, and implements reverse=True by reversing the     *)
(* list before and after the sort.                                         *)
TupleLess(a, b) ==
    \E i \in 1..Len(a) :
        /\ i <= Len(b)
        /\ a[i] < b[i]
        /\ \A j \in 1..(i-1) : a[j] = b[j]

Reverse(s) == [i \in 1..Len(s) |-> s[Len(s) + 1 - i]]

(* insert p after every element whose key is not greater than p's key *)
InsertRight(p, s) ==
    LET n == Cardinality({i \in 1..Len(s) : ~TupleLess(p.key, s[i].key)})
    IN  SubSeq(s, 1, n) \o <<p>> \o SubSeq(s, n + 1, Len(s))

RECURSIVE SortPairs(_)
SortPairs(s) ==
    IF s = <<>> THEN <<>>
    ELSE InsertRight(s[Len(s)], SortPairs(SubSeq(s, 1, Len(s) - 1)))

Undecorate(ps) == [i \in 1..Len(ps) |-> ps[i].val]

(* a descending sort written as an ascending sort read backwards *)
sorted_backwards(seq, keys, reverse) ==
    LET ps == [i \in 1..Len(seq) |-> [key |-> keys[i], val |-> seq[i]]]
    IN  IF reverse
        THEN Undecorate(Reverse(SortPairs(ps)))
        ELSE Undecorate(SortPairs(ps))

(* sorted(seq, key=..., reverse=...); keys[i] is the key of seq[i] *)
sorted(seq, keys, reverse) ==
    LET ps == [i \in 1..Len(seq) |-> [key |-> keys[i], val |-> seq[i]]]
    IN  IF reverse
        THEN Undecorate(Reverse(SortPairs(Reverse(ps))))
        ELSE Undecorate(SortPairs(ps))

(* src/app.py:102-104 *)
role_order_get(role) ==
    CASE role = "leader"   -> 1
      [] role = "coLeader" -> 2
      [] role = "elder"    -> 3
      [] role = "member"   -> 4
      [] OTHER             -> 5

member_key_asc(h, o) == << role_order_get(h[o].role), h[o].trophies >>

member_key(h, o) == << role_order_get(h[o].role), 0 - h[o].trophies >>

sort_members(h, items) ==
    sorted(items, [i \in 1..Len(items) |-> member_key(h, items[i])], FALSE)

----------------------------------------------------------------------------
(* The heap of member dicts. response.json() builds a fresh dict for every *)
(* member of the body; an address is free once nothing refers to it.       *)
RECURSIVE Alloc(_, _)
Alloc(used, n) ==
    IF n = 0 THEN <<>>
    ELSE LET a == CHOOSE x \in 1..(Cardinality(used) + 1) : x \notin used
         IN  <<a>> \o Alloc(used \cup {a}, n - 1)

Range(s) == { s[i] : i \in 1..Len(s) }

(* the dicts reachable from the module-level state *)
Live(c, sel) ==
    UNION { Range(c[k].data.items) : k \in Keys } \cup Range(sel.selected_members)

Collect(h, c, sel) ==
    IF h = <<>> THEN h ELSE [a \in (DOMAIN h \cap Live(c, sel)) |-> h[a]]

(* src/app.py:69 for the roster: the parsed body, its members placed in the heap *)
Parsed(h, raw) ==
    LET addrs == Alloc(DOMAIN h, Len(raw.items))
    IN  IF raw.items = <<>> THEN [heap |-> h, data |-> raw] ELSE
        [heap |-> [a \in DOMAIN h \cup Range(addrs) |->
                      IF a \in DOMAIN h THEN h[a]
                      ELSE raw.items[CHOOSE i \in 1..Len(addrs) : addrs[i] = a]],
         data |-> [raw EXCEPT !.items = addrs]]

(* src/app.py:129-134 *)
normalize_side(side) ==
    IF side \in {"dictNoAttacks", "dictBadAttacks"} THEN "dictAttacks" ELSE side

(* The resource-specific step between the success test and the cache write:  *)
(* src/app.py:102-104 (roster sort), src/app.py:129-134 (current war).       *)
normalize(h, cache_key, data) ==
    CASE cache_key = "members" ->
             [data EXCEPT !.items = sort_members(h, data.items)]
      [] cache_key = "current_war" ->
             [data EXCEPT !.clan = normalize_side(data.clan),
                          !.opponent = normalize_side(data.opponent)]
      [] OTHER -> data

(* a fetcher that answers a failed refresh with the stale entry *)
fetch_serve_stale(c, h, t, key, cache_key, resp) ==
    IF is_cache_valid(c, cache_key, t)
    THEN [cache |-> c, heap |-> h, ret |-> c[cache_key].data,
          issued |-> FALSE, wrote |-> FALSE]
    ELSE LET p == Parsed(h, make_api_request(key, resp))
         IN  IF is_success(p.data)
             THEN LET data == normalize(p.heap, cache_key, p.data)
                  IN  [cache |-> [c EXCEPT ![cache_key] =
                                     [data |-> data, timestamp |-> t]],
                       heap |-> p.heap, ret |-> data,
                       issued |-> Issues(key), wrote |-> TRUE]
             ELSE [cache |-> c, heap |-> p.heap,
                   ret |-> IF c[cache_key].data # NoData THEN c[cache_key].data
                           ELSE p.data,
                   issued |-> Issues(key), wrote |-> FALSE]

(* One call of a cached fetcher, run to completion (src/app.py:83-93 and    *)
(* its six siblings): the cache and heap it leaves, the value it returns,   *)
(* whether it issued an upstream request and whether it wrote the cache.    *)
fetch(c, h, t, key, cache_key, resp) ==
    IF is_cache_valid(c, cache_key, t)
    THEN [cache |-> c, heap |-> h, ret |-> c[cache_key].data,
          issued |-> FALSE, wrote |-> FALSE]
    ELSE LET p == Parsed(h, make_api_request(key, resp))
         IN  IF is_success(p.data)
             THEN LET data == normalize(p.heap, cache_key, p.data)
                  IN  [cache |-> [c EXCEPT ![cache_key] =
                                     [data |-> data, timestamp |-> t]],
                       heap |-> p.heap, ret |-> data,
                       issued |-> Issues(key), wrote |-> TRUE]
             ELSE [cache |-> c, heap |-> p.heap, ret |-> p.data,
                   issued |-> Issues(key), wrote |-> FALSE]

----------------------------------------------------------------------------
(* Observation of the operation that ran last *)
(* op, key: the operation and the cache key it reads; issued, resp: whether *)
(* it issued an upstream request, and the outcome; ret: what its fetcher     *)
(* returned; tags: the submitted form tags; out: "ok", "error" (the error    *)
(* branch) or "fault" (an uncaught exception); boards: the computed view     *)
(* (the leaderboards, the war statistics); before: the tags of the selection *)
(* stored when the operation began. For the fetchers that take an argument:  *)
(* arg, the argument; endpoint, the path handed to make_api_request; repeat, *)
(* whether the call before was the same operation on the same path (for a    *)
(* cached fetcher: the same fetcher, and its request did not succeed).       *)
Call(op, key, issued, resp, ret, tags, out, boards, before) ==
    [op |-> op, key |-> key, issued |-> issued, resp |-> resp, ret |-> ret,
     tags |-> tags, out |-> out, boards |-> boards, before |-> before,
     arg |-> <<>>, endpoint |-> <<>>, repeat |-> FALSE]

NoCall == Call("init", "", FALSE, NoResp, NoData, {}, "", <<>>, <<>>)

Populated(c) == { k \in Keys : c[k].data # NoData }

(* the bound on the number of populated keys: a key that would exceed it    *)
(* gets no cacheable answer                                                  *)
MayPopulate(c, cache_key) ==
    \/ c[cache_key].data # NoData
    \/ Cardinality(Populated(c)) < MaxCachedKeys

(* The outcomes an upstream request for cache_key can have; without an      *)
(* API_KEY no request is issued.                                             *)
Answers(c, key, cache_key, responses) ==
    IF ~Issues(key)
    THEN {NoResp}
    ELSE IF MayPopulate(c, cache_key)
         THEN responses[cache_key]
         ELSE { resp \in responses[cache_key] : ~is_success(resp.json) }

(* The outcomes the upstream request of one fetcher call can have; a cache  *)
(* hit issues no request.                                                    *)
Outcomes(c, t, key, cache_key, responses) ==
    IF is_cache_valid(c, cache_key, t)
    THEN {NoResp}
    ELSE Answers(c, key, cache_key, responses)

(* the upstream of the service specification *)
Upstream == [k \in Keys |-> Responses(k, Rosters)]

(* two worker threads serve requests concurrently *)
Threads == {1, 2}

(* a thread between requests *)
Idle == [pc |-> "idle", key |-> "", data |-> NoData, tags |-> {}, id |-> 0,
         update |-> FALSE]

Init ==
    /\ cache = [k \in Keys |-> [data |-> NoData, timestamp |-> None]]
    /\ cwl_team_selection = [selected_members |-> <<>>, last_updated |-> None]
    /\ heap = <<>>
    /\ now = 0
    /\ API_KEY \in {"key", ""}
    /\ CLAN_TAG = clean_clan_tag(DefaultClanTag)
    /\ call = NoCall
    /\ writeTime = [k \in Keys |-> None]
    /\ threads = [t \in Threads |-> Idle]
    /\ writer = [k \in Keys |-> [data |-> 0, timestamp |-> 0]]
    /\ selWriter = [selected_members |-> 0, last_updated |-> 0]
    /\ nreq = 0

FetcherOps == {"get_clan_info", "get_clan_members", "get_war_log", "get_current_war",
               "get_league_group", "get_capital_raid_seasons", "get_leagues"}

(* a cached fetcher called directly *)
Fetcher(op, cache_key, responses) ==
    \E resp \in Outcomes(cache, now, API_KEY, cache_key, responses) :
        /\ LET r == fetch(cache, heap, now, API_KEY, cache_key, resp)
           IN  /\ cache' = r.cache
               /\ heap' = Collect(r.heap, r.cache, cwl_team_selection)
               /\ writeTime' = IF r.wrote THEN [writeTime EXCEPT ![cache_key] = now]
                               ELSE writeTime
               /\ call' = Call(op, cache_key, r.issued,
                               resp, r.ret, {}, "", <<>>, <<>>)
        /\ UNCHANGED <<cwl_team_selection, now, API_KEY, CLAN_TAG, tvars>>

get_clan_info == Fetcher("get_clan_info", "clan_info", Upstream)

get_clan_members == Fetcher("get_clan_members", "members", Upstream)

get_war_log == Fetcher("get_war_log", "war_log", Upstream)

get_current_war == Fetcher("get_current_war", "current_war", Upstream)

get_league_group == Fetcher("get_league_group", "league_group", Upstream)

get_capital_raid_seasons == Fetcher("get_capital_raid_seasons", "capital_raids", Upstream)

get_leagues == Fetcher("get_leagues", "leagues", Upstream)

(* the clock *)
Tick ==
    /\ \E t \in Instants : t > now /\ now' = t
    /\ call' = Call("tick", "", FALSE, NoResp, NoData, {}, "", <<>>, <<>>)
    /\ UNCHANGED <<cache, cwl_team_selection, heap, API_KEY, CLAN_TAG, writeTime, tvars>>

Next ==
    \/ get_clan_info
    \/ get_clan_members
    \/ get_war_log
    \/ get_current_war
    \/ get_league_group
    \/ get_capital_raid_seasons
    \/ get_leagues
    \/ Tick

Spec == Init /\ [][Next]_vars

----------------------------------------------------------------------------
(* Calls of one fetcher in a row: the observation also tells whether the    *)
(* call before was a call of the same fetcher whose request did not succeed *)

Refetcher(op, cache_key, responses) ==
    \E resp \in Outcomes(cache, now, API_KEY, cache_key, responses) :
        /\ LET r == fetch(cache, heap, now, API_KEY, cache_key, resp)
           IN  /\ cache' = r.cache
               /\ heap' = Collect(r.heap, r.cache, cwl_team_selection)
               /\ writeTime' = IF r.wrote THEN [writeTime EXCEPT ![cache_key] = now]
                               ELSE writeTime
               /\ call' = [Call(op, cache_key, r.issued,
                                resp, r.ret, {}, "", <<>>, <<>>)
                              EXCEPT !.repeat = (/\ call.op = op
                                                 /\ call.issued
                                                 /\ ~is_success(call.ret))]
        /\ UNCHANGED <<cwl_team_selection, now, API_KEY, CLAN_TAG, tvars>>

retry_get_clan_info == Refetcher("get_clan_info", "clan_info", Upstream)

retry_get_clan_members == Refetcher("get_clan_members", "members", Upstream)

retry_get_current_war == Refetcher("get_current_war", "current_war", Upstream)

NextRetry ==
    \/ retry_get_clan_info
    \/ retry_get_clan_members
    \/ retry_get_current_war
    \/ Tick

SpecRetry == Init /\ [][NextRetry]_vars

----------------------------------------------------------------------------
(* The CWL team selection and the views of the roster *)

TopN == 20

(* the tag sets a form can submit *)
TagSets == SUBSET Tags

TagsOf(h, members) == [i \in 1..Len(members) |-> h[members[i]].tag]

(* a handler without the error branch *)
Outcome_no_error_branch(members) ==
    IF members.shape # "dict" THEN "fault" ELSE "ok"

(* how a handler goes on with what get_clan_members() returned: the error   *)
(* branch, an uncaught AttributeError on members.get (a JSON array has no   *)
(* get), or the normal path                                                  *)
Outcome(members) ==
    IF is_error(members) THEN "error"
    ELSE IF members.shape # "dict" THEN "fault"
    ELSE "ok"

(* src/app.py:252-253 *)
mark_selected(h, all_members, selected_tags) ==
    [a \in DOMAIN h |->
        IF a \in Range(all_members)
        THEN [h[a] EXCEPT !.selected =
                 IF h[a].tag \in Range(selected_tags) THEN "True" ELSE "False"]
        ELSE h[a]]

(* src/app.py:242-258 *)
cwl_team_selection_page ==
    \E resp \in Outcomes(cache, now, API_KEY, "members", Upstream) :
        LET r == fetch(cache, heap, now, API_KEY, "members", resp)
            out == Outcome(r.ret)
            selected_tags == TagsOf(r.heap, cwl_team_selection.selected_members)
            h2 == IF out = "ok" THEN mark_selected(r.heap, r.ret.items, selected_tags)
                  ELSE r.heap
        IN  /\ cache' = r.cache
            /\ heap' = Collect(h2, r.cache, cwl_team_selection)
            /\ writeTime' = IF r.wrote THEN [writeTime EXCEPT !["members"] = now]
                            ELSE writeTime
            /\ call' = Call("cwl_team_selection_page", "members", r.issued, resp,
                            r.ret, {}, out, <<>>, selected_tags)
            /\ UNCHANGED <<cwl_team_selection, now, API_KEY, CLAN_TAG, tvars>>

(* src/app.py:271-274: the list comprehension keeps the roster's own dicts *)
select_all(h, all_members, selected_member_tags) == all_members

select_members(h, all_members, selected_member_tags) ==
    SelectSeq(all_members, LAMBDA a : h[a].tag \in selected_member_tags)

(* src/app.py:260-278 *)
update_cwl_team_selection ==
    \E selected_member_tags \in TagSets :
    \E resp \in Outcomes(cache, now, API_KEY, "members", Upstream) :
        LET r == fetch(cache, heap, now, API_KEY, "members", resp)
            out == Outcome(r.ret)
            sel == IF out = "ok"
                   THEN [selected_members |->
                             select_members(r.heap, r.ret.items, selected_member_tags),
                         last_updated |-> now]
                   ELSE cwl_team_selection
        IN  /\ cache' = r.cache
            /\ cwl_team_selection' = sel
            /\ heap' = Collect(r.heap, r.cache, sel)
            /\ writeTime' = IF r.wrote THEN [writeTime EXCEPT !["members"] = now]
                            ELSE writeTime
            /\ call' = Call("update_cwl_team_selection", "members", r.issued, resp,
                            r.ret, selected_member_tags, out, <<>>,
                            TagsOf(heap, cwl_team_selection.selected_members))
            /\ UNCHANGED <<now, API_KEY, CLAN_TAG, tvars>>

Min(a, b) == IF a < b THEN a ELSE b

(* src/app.py:393-395: sorted(players, key=lambda x: x[metric], reverse=True)[:20] *)
top_by(h, players, metric) ==
    LET s == sorted(players, [i \in 1..Len(players) |-> << h[players[i]][metric] >>], TRUE)
    IN  SubSeq(s, 1, Min(TopN, Len(s)))

(* src/app.py:385-401 *)
TopPlayers(responses) ==
    \E resp \in Outcomes(cache, now, API_KEY, "members", responses) :
        LET r == fetch(cache, heap, now, API_KEY, "members", resp)
            out == Outcome(r.ret)
            boards == IF out = "ok"
                      THEN << top_by(r.heap, r.ret.items, "donations"),
                              top_by(r.heap, r.ret.items, "trophies"),
                              top_by(r.heap, r.ret.items, "donationsReceived") >>
                      ELSE <<>>
        IN  /\ cache' = r.cache
            /\ heap' = Collect(r.heap, r.cache, cwl_team_selection)
            /\ writeTime' = IF r.wrote THEN [writeTime EXCEPT !["members"] = now]
                            ELSE writeTime
            /\ call' = Call("top_players", "members", r.issued, resp,
                            r.ret, {}, out, boards, <<>>)
            /\ UNCHANGED <<cwl_team_selection, now, API_KEY, CLAN_TAG, tvars>>

top_players == TopPlayers(Upstream)

NextSel ==
    \/ get_clan_members
    \/ cwl_team_selection_page
    \/ update_cwl_team_selection
    \/ top_players
    \/ Tick

(* the roster and the selection, without the other six resources *)
SpecSel == Init /\ [][NextSel]_vars

----------------------------------------------------------------------------
(* The fetchers that keep no cache entry: get_league_war, search_clans and  *)
(* get_player                                                               *)

MaxTagLen == 2           \* tags have up to this many characters

TagChars == {"#", "A"}

ExampleTags == { <<"#", "A", "B", "C", "1", "2">>, <<"A", "B", "C", "1", "2">> }

(* the war and player tags a caller passes *)
TagArgs == UNION { [1..n -> TagChars] : n \in 0..MaxTagLen } \cup ExampleTags

(* str.replace('#', '%23') *)
RECURSIVE replace_hash(_)
replace_hash(tag) ==
    IF tag = <<>> THEN <<>>
    ELSE (IF Head(tag) = "#" THEN <<"%", "2", "3">> ELSE <<Head(tag)>>)
         \o replace_hash(Tail(tag))

encode_tag_always(tag) == replace_hash(tag)

(* src/app.py:166, 176  tag.replace('#', '%23') if tag.startswith('#') else tag *)
encode_tag(tag) ==
    IF tag # <<>> /\ Head(tag) = "#" THEN replace_hash(tag) ELSE tag

(* the params mappings a caller passes to search_clans, in insertion order *)
SearchParams == { <<>>,
                  << <<"name", "x">> >>,
                  << <<"name", "">>, <<"minMembers", "2">> >>,
                  << <<"name", "x">>, <<"minMembers", "2">> >>,
                  << <<"name", "">> >> }

RECURSIVE join_amp(_)
join_amp(parts) ==
    IF parts = <<>> THEN <<>>
    ELSE IF Len(parts) = 1 THEN Head(parts)
    ELSE Head(parts) \o <<"&">> \o join_amp(Tail(parts))

(* src/app.py:171 *)
search_query(params) ==
    LET kept == SelectSeq(params, LAMBDA kv : kv[2] # "")
    IN  join_amp([i \in 1..Len(kept) |-> <<kept[i][1], "=", kept[i][2]>>])

(* src/app.py:172 *)
search_endpoint(params) ==
    IF search_query(params) # <<>> THEN <<"/clans?">> \o search_query(params)
    ELSE <<"/clans">>

(* the outcomes of the upstream request of such a fetcher *)
DirectAnswers(key) ==
    IF ~Issues(key) THEN {NoResp} ELSE Responses("uncached", {})

(* a fetcher that answers a repeated call from the call before *)
uncached_memo(prev, op, endpoint, key, resp) ==
    IF prev.op = op /\ prev.endpoint = endpoint
    THEN [ret |-> prev.ret, issued |-> FALSE]
    ELSE [ret |-> make_api_request(key, resp), issued |-> Issues(key)]

(* src/app.py:167-168, 172-173, 177-178: data = make_api_request(...); return data *)
uncached(prev, op, endpoint, key, resp) ==
    [ret |-> make_api_request(key, resp), issued |-> Issues(key)]

Uncached(op, arg, endpoint) ==
    \E resp \in DirectAnswers(API_KEY) :
        LET r == uncached(call, op, endpoint, API_KEY, resp)
        IN  /\ call' = [Call(op, "", r.issued, resp, r.ret, {}, "", <<>>, <<>>)
                           EXCEPT !.arg = arg, !.endpoint = endpoint,
                                  !.repeat = (call.op = op /\ call.endpoint = endpoint)]
            /\ UNCHANGED <<cache, cwl_team_selection, heap, now, API_KEY, CLAN_TAG,
                           writeTime, tvars>>

(* src/app.py:165-168 *)
get_league_war ==
    \E war_tag \in TagArgs :
        Uncached("get_league_war", war_tag,
                 <<"/clanwarleagues/wars/">> \o encode_tag(war_tag))

(* src/app.py:170-173 *)
search_clans ==
    \E params \in SearchParams :
        Uncached("search_clans", params, search_endpoint(params))

(* src/app.py:175-178 *)
get_player ==
    \E player_tag \in TagArgs :
        Uncached("get_player", player_tag, <<"/players/">> \o encode_tag(player_tag))

DirectOps == {"get_league_war", "search_clans", "get_player"}

NextDirect ==
    \/ get_league_war
    \/ search_clans
    \/ get_player
    \/ update_cwl_team_selection

(* the three fetchers next to a roster cache and a selection that change *)
SpecDirect == Init /\ [][NextDirect]_vars

----------------------------------------------------------------------------
(* Startup: the module-level configuration of src/app.py:19-28              *)

(* values of the CLAN_TAG environment variable *)
EnvClanTags ==
    { DefaultClanTag,
      <<"#", "2", "G", "9", "C", "9", "Q", "C", "L", "O">>,
      DefaultClanTag \o <<"\n">>,
      <<"#", "a", "b", "c", "d", "e">>,
      <<"2", "G", "9", "C", "9", "Q">>,
      <<"#", "A", "B">> }

(* neither test of src/app.py:25-28 logs an error *)
ConfigValid == API_KEY # "" /\ clan_tag_matches(CLAN_TAG)

InitStartup ==
    /\ cache = [k \in Keys |-> [data |-> NoData, timestamp |-> None]]
    /\ cwl_team_selection = [selected_members |-> <<>>, last_updated |-> None]
    /\ heap = <<>>
    /\ now = 0
    /\ API_KEY \in {"key", ""}
    /\ CLAN_TAG \in { clean_clan_tag(tag) : tag \in EnvClanTags }
    /\ call = NoCall
    /\ writeTime = [k \in Keys |-> None]
    /\ threads = [t \in Threads |-> Idle]
    /\ writer = [k \in Keys |-> [data |-> 0, timestamp |-> 0]]
    /\ selWriter = [selected_members |-> 0, last_updated |-> 0]
    /\ nreq = 0

(* after the two tests the module goes on to define and serve the routes *)
NextStartup ==
    \/ get_clan_info
    \/ get_player
    \/ Tick

SpecStartup == InitStartup /\ [][NextStartup]_vars

----------------------------------------------------------------------------
(* The roster sort and the leaderboards over enumerated rosters *)

MaxLen == 2              \* short rosters have up to this many members
MaxExtra == 1            \* long rosters have up to TopN + MaxExtra members

SortRoles == {"leader", "coLeader", "elder", "member", "admin"}

(* trophies and donations of the members of a short roster *)
Vals == {0, 1}

TagAt(i) == "#" \o ToString(i)

(* every roster of n members; the member at position i has tag TagAt(i),   *)
(* and has received what it has not given                                   *)
ShortRosters(n) ==
    LET Stats == [role : SortRoles, trophies : Vals, donations : Vals]
    IN  { [i \in 1..n |-> Player(TagAt(i), f[i].role, f[i].trophies,
                                 f[i].donations, 1 - f[i].donations)] :
          f \in [1..n -> Stats] }

(* n plain members with equal trophies, of which the one at position hi     *)
(* gave the most and received the least, and the one at lo the reverse      *)
(* (position 0: nobody)                                                      *)
LongRoster(n, hi, lo) ==
    [i \in 1..n |-> Player(TagAt(i), "member", 0,
                           IF i = hi THEN 2 ELSE IF i = lo THEN 0 ELSE 1,
                           IF i = lo THEN 2 ELSE IF i = hi THEN 0 ELSE 1)]

Marks(n) == {0, 1, TopN} \cup {n}

SortRosters ==
    UNION { ShortRosters(n) : n \in 0..MaxLen }
    \cup UNION { { LongRoster(n, hi, lo) : hi \in Marks(n), lo \in Marks(n) } :
                 n \in (TopN - 1)..(TopN + MaxExtra) }

SortUpstream == [k \in Keys |-> Responses(k, SortRosters)]

sort_get_clan_members == Fetcher("get_clan_members", "members", SortUpstream)

sort_top_players == TopPlayers(SortUpstream)

NextSort ==
    \/ sort_get_clan_members
    \/ sort_top_players

SpecSort == Init /\ [][NextSort]_vars

----------------------------------------------------------------------------
(* The war log and the war statistics *)

MaxWars == 2             \* a war log has up to this many records

(* 'result' is null for a war without a decided result *)
WarResults == {"win", "lose", "tie", "null"}

(* a war-log record; s distinguishes two score lines *)
WarRecord(result, s) ==
    [result |-> result,
     clan |-> [stars |-> s, destructionPercentage |-> 50 + s],
     opponent |-> [name |-> "opp", stars |-> 2 - s, destructionPercentage |-> 40 - s]]

WarRecords == { WarRecord(res, s) : res \in WarResults, s \in {0, 1} }

WarLogs == UNION { [1..n -> WarRecords] : n \in 0..MaxWars }

(* the upstream of the war-log specification *)
WarUpstream ==
    [k \in Keys |->
        IF k = "war_log"
        THEN { [status |-> 200, json |-> Json("dict", NoKey, "warlog", w, NoKey, NoKey)] :
               w \in WarLogs }
             \cup { resp \in Responses(k, {}) : ~is_success(resp.json) }
        ELSE Responses(k, {})]

(* src/app.py:353-355  sum(1 for war in wars if war['result'] == result) *)
RECURSIVE count_any(_, _, _)
count_any(h, wars, result) ==
    IF wars = <<>> THEN 0 ELSE 1 + count_any(h, Tail(wars), result)

RECURSIVE count_result(_, _, _)
count_result(h, wars, result) ==
    IF wars = <<>> THEN 0
    ELSE (IF h[Head(wars)].result = result THEN 1 ELSE 0)
         + count_result(h, Tail(wars), result)

(* src/app.py:366-373 *)
war_result(war) ==
    [opponent |-> war.opponent.name,
     result |-> war.result,
     our_stars |-> war.clan.stars,
     opponent_stars |-> war.opponent.stars,
     our_destruction |-> war.clan.destructionPercentage,
     opponent_destruction |-> war.opponent.destructionPercentage]

(* src/app.py:351-383: the JSON view computed from the list wars *)
war_stats(h, wars) ==
    [win_loss |-> [wins |-> count_result(h, wars, "win"),
                   losses |-> count_result(h, wars, "lose"),
                   draws |-> count_result(h, wars, "tie")],
     stars_trend |-> [i \in 1..Len(wars) |-> h[wars[i]].clan.stars],
     our_destruction |-> [i \in 1..Len(wars) |-> h[wars[i]].clan.destructionPercentage],
     opponent_destruction |->
         [i \in 1..Len(wars) |-> h[wars[i]].opponent.destructionPercentage],
     war_results |-> [i \in 1..Len(wars) |-> war_result(h[wars[i]])]]

(* src/app.py:345-383 *)
war_stats_api ==
    \E resp \in Outcomes(cache, now, API_KEY, "war_log", WarUpstream) :
        LET r == fetch(cache, heap, now, API_KEY, "war_log", resp)
            out == Outcome(r.ret)
            view == IF out = "ok" THEN war_stats(r.heap, r.ret.items) ELSE <<>>
        IN  /\ cache' = r.cache
            /\ heap' = Collect(r.heap, r.cache, cwl_team_selection)
            /\ writeTime' = IF r.wrote THEN [writeTime EXCEPT !["war_log"] = now]
                            ELSE writeTime
            /\ call' = Call("war_stats_api", "war_log", r.issued, resp,
                            r.ret, {}, out, view, <<>>)
            /\ UNCHANGED <<cwl_team_selection, now, API_KEY, CLAN_TAG, tvars>>

war_get_war_log == Fetcher("get_war_log", "war_log", WarUpstream)

NextWar ==
    \/ war_get_war_log
    \/ war_stats_api

SpecWar == Init /\ [][NextWar]_vars

----------------------------------------------------------------------------
(* Requests served concurrently by worker threads. Each step is one read or *)
(* write of the module-level state; a thread can be preempted between any   *)
(* two of them. The program takes no lock.                                  *)

FetcherKey == [op \in FetcherOps |-> CASE op = "get_clan_info" -> "clan_info"
                                       [] op = "get_clan_members" -> "members"
                                       [] op = "get_war_log" -> "war_log"
                                       [] op = "get_current_war" -> "current_war"
                                       [] op = "get_league_group" -> "league_group"
                                       [] op = "get_capital_raid_seasons" -> "capital_raids"
                                       [] op = "get_leagues" -> "leagues"]

(* The upstream of the thread-level specification: per resource one body,   *)
(* or the 429 failure. The forms submit one of two tag sets.                *)
ThreadUpstream ==
    [k \in Keys |-> { resp \in Responses(k, {RosterA}) :
                         \/ resp.status = 429
                         \/ is_success(resp.json) /\ resp.json.clan # "notDict"
                                                 /\ resp.json.opponent # "dictAttacks" }]

ThreadTagSets == { {"#A"}, {"#A", "#B"} }

(* the member dicts a thread's locals refer to *)
ThreadLive(th) == UNION { Range(th[t].data.items) : t \in DOMAIN th }

CollectT(h, c, sel, th) ==
    IF h = <<>> THEN h
    ELSE [a \in (DOMAIN h \cap (Live(c, sel) \cup ThreadLive(th))) |-> h[a]]

(* what a thread does when its fetcher returns data: a plain fetcher call   *)
(* is over; update_cwl_team_selection goes on at line 265                    *)
Returned(th, data) ==
    IF th.update /\ Outcome(data) = "ok"
    THEN [th EXCEPT !.pc = "set_selected_members", !.data = data]
    ELSE Idle

(* a thread takes a request for one of the seven fetchers *)
BeginFetcher(t) ==
    /\ threads[t].pc = "idle"
    /\ nreq < MaxRequests
    /\ \E op \in FetcherOps :
          threads' = [threads EXCEPT ![t] =
              [Idle EXCEPT !.pc = "is_none", !.key = FetcherKey[op], !.id = nreq + 1]]
    /\ nreq' = nreq + 1
    /\ UNCHANGED <<cache, cwl_team_selection, heap, now, API_KEY, CLAN_TAG, call, writeTime,
                   writer, selWriter>>

(* src/app.py:262-264: a thread takes a POST /cwl-team-selection *)
BeginUpdate(t) ==
    /\ threads[t].pc = "idle"
    /\ nreq < MaxRequests
    /\ \E selected_member_tags \in ThreadTagSets :
          threads' = [threads EXCEPT ![t] =
              [Idle EXCEPT !.pc = "is_none", !.key = "members", !.id = nreq + 1,
                           !.tags = selected_member_tags, !.update = TRUE]]
    /\ nreq' = nreq + 1
    /\ UNCHANGED <<cache, cwl_team_selection, heap, now, API_KEY, CLAN_TAG, call, writeTime,
                   writer, selWriter>>

(* src/app.py:56 *)
IsNone(t) ==
    /\ threads[t].pc = "is_none"
    /\ threads' = [threads EXCEPT ![t].pc =
                      IF cache[threads[t].key].timestamp = None
                      THEN "request" ELSE "compare"]
    /\ UNCHANGED <<cache, cwl_team_selection, heap, now, API_KEY, CLAN_TAG, call, writeTime,
                   writer, selWriter, nreq>>

(* src/app.py:58 *)
Compare(t) ==
    /\ threads[t].pc = "compare"
    /\ threads' = [threads EXCEPT ![t].pc =
                      IF is_cache_valid(cache, threads[t].key, now)
                      THEN "return_cached" ELSE "request"]
    /\ UNCHANGED <<cache, cwl_team_selection, heap, now, API_KEY, CLAN_TAG, call, writeTime,
                   writer, selWriter, nreq>>

(* src/app.py:85 *)
ReturnCached(t) ==
    /\ threads[t].pc = "return_cached"
    /\ LET th == [threads EXCEPT ![t] =
                     Returned(threads[t], cache[threads[t].key].data)]
       IN  /\ threads' = th
           /\ heap' = CollectT(heap, cache, cwl_team_selection, th)
    /\ UNCHANGED <<cache, cwl_team_selection, now, API_KEY, CLAN_TAG, call, writeTime,
                   writer, selWriter, nreq>>

(* src/app.py:87-89 and the normalisation of the thread's own data *)
Request(t) ==
    /\ threads[t].pc = "request"
    /\ \E resp \in Answers(cache, API_KEY, threads[t].key, ThreadUpstream) :
          LET p == Parsed(heap, make_api_request(API_KEY, resp))
              th == [threads EXCEPT ![t] =
                        IF is_success(p.data)
                        THEN [threads[t] EXCEPT
                                 !.pc = "write_data",
                                 !.data = normalize(p.heap, threads[t].key, p.data)]
                        ELSE Returned(threads[t], p.data)]
          IN  /\ threads' = th
              /\ heap' = CollectT(p.heap, cache, cwl_team_selection, th)
    /\ UNCHANGED <<cache, cwl_team_selection, now, API_KEY, CLAN_TAG, call, writeTime,
                   writer, selWriter, nreq>>

(* a fetcher that goes on to line 91 without the assignment of line 90 *)
SkipWriteData(t) ==
    /\ threads[t].pc = "write_data"
    /\ threads' = [threads EXCEPT ![t].pc = "write_timestamp"]
    /\ UNCHANGED <<cache, cwl_team_selection, heap, now, API_KEY, CLAN_TAG, call,
                   writeTime, writer, selWriter, nreq>>

(* src/app.py:90 *)
WriteData(t) ==
    /\ threads[t].pc = "write_data"
    /\ cache' = [cache EXCEPT ![threads[t].key].data = threads[t].data]
    /\ writer' = [writer EXCEPT ![threads[t].key].data = threads[t].id]
    /\ threads' = [threads EXCEPT ![t].pc = "write_timestamp"]
    /\ heap' = CollectT(heap, cache', cwl_team_selection, threads')
    /\ UNCHANGED <<cwl_team_selection, now, API_KEY, CLAN_TAG, call, writeTime, selWriter, nreq>>

(* src/app.py:91-93 *)
WriteTimestamp(t) ==
    /\ threads[t].pc = "write_timestamp"
    /\ cache' = [cache EXCEPT ![threads[t].key].timestamp = now]
    /\ writer' = [writer EXCEPT ![threads[t].key].timestamp = threads[t].id]
    /\ writeTime' = [writeTime EXCEPT ![threads[t].key] = now]
    /\ threads' = [threads EXCEPT ![t] = Returned(threads[t], threads[t].data)]
    /\ heap' = CollectT(heap, cache', cwl_team_selection, threads')
    /\ UNCHANGED <<cwl_team_selection, now, API_KEY, CLAN_TAG, call, selWriter, nreq>>

(* src/app.py:269-274 *)
SetSelectedMembers(t) ==
    /\ threads[t].pc = "set_selected_members"
    /\ cwl_team_selection' =
          [cwl_team_selection EXCEPT !.selected_members =
              select_members(heap, threads[t].data.items, threads[t].tags)]
    /\ selWriter' = [selWriter EXCEPT !.selected_members = threads[t].id]
    /\ threads' = [threads EXCEPT ![t].pc = "set_last_updated", ![t].data = NoData]
    /\ heap' = CollectT(heap, cache, cwl_team_selection', threads')
    /\ UNCHANGED <<cache, now, API_KEY, CLAN_TAG, call, writeTime, writer, nreq>>

(* src/app.py:275-278 *)
SetLastUpdated(t) ==
    /\ threads[t].pc = "set_last_updated"
    /\ cwl_team_selection' = [cwl_team_selection EXCEPT !.last_updated = now]
    /\ selWriter' = [selWriter EXCEPT !.last_updated = threads[t].id]
    /\ threads' = [threads EXCEPT ![t] = Idle]
    /\ UNCHANGED <<cache, heap, now, API_KEY, CLAN_TAG, call, writeTime, writer, nreq>>

NextThreads ==
    \/ \E t \in Threads :
          \/ BeginFetcher(t)
          \/ BeginUpdate(t)
          \/ IsNone(t)
          \/ Compare(t)
          \/ ReturnCached(t)
          \/ Request(t)
          \/ WriteData(t)
          \/ WriteTimestamp(t)
          \/ SetSelectedMembers(t)
          \/ SetLastUpdated(t)
    \/ Tick

SpecThreads == Init /\ [][NextThreads]_vars

----------------------------------------------------------------------------
(* Claims about the cached fetchers, checked under Spec                     *)

ErrorStatuses == {403, 429, 500, 0}

(* the entry of key k was written and fewer than CACHE_DURATION seconds     *)
(* have passed since, by the clock reading recorded at the write            *)
InWindow(k) ==
    /\ writeTime[k] # None
    /\ writeTime[k] <= now
    /\ now < writeTime[k] + CACHE_DURATION

(* C1: a fetcher call that misses the cache and whose upstream request      *)
(* fails (403, 429, another status, transport) leaves every cache entry,    *)
(* data and timestamp, as it was, and returns an error dict to the caller.  *)
C1_NoCacheOnError ==
    [][ (/\ call'.op \in FetcherOps
         /\ call'.issued
         /\ call'.resp.status \in ErrorStatuses)
        => (/\ cache' = cache
            /\ is_error(call'.ret)
            /\ call'.ret.items = <<>>) ]_vars

(* a failed refresh of a stale, populated entry that is still in the cache  *)
C1_Witness ==
    /\ call.op \in FetcherOps
    /\ call.issued
    /\ call.resp.status = 429
    /\ cache[call.key].data # NoData
    /\ cache[call.key].timestamp = 0
    /\ now = 300
    /\ \E k \in Keys \ {call.key} : cache[k].data # NoData

(* C2: is_cache_valid(key) is true exactly from the clock reading of the    *)
(* key's last write up to, but not including, CACHE_DURATION seconds later, *)
(* and false for a key never written.                                       *)
C2_Freshness ==
    \A k \in Keys : is_cache_valid(cache, k, now) <=> InWindow(k)

(* age 300 is stale, age 1 is fresh, a third key was never written *)
C2_Witness ==
    /\ now = 300
    /\ \E k1, k2, k3 \in Keys :
          /\ writeTime[k1] = 0 /\ ~is_cache_valid(cache, k1, now)
          /\ writeTime[k2] = 299 /\ is_cache_valid(cache, k2, now)
          /\ writeTime[k3] = None /\ ~is_cache_valid(cache, k3, now)

(* C3: a fetcher called while its entry is inside the freshness window      *)
(* returns the cached payload, issues no upstream request and leaves the    *)
(* cache unchanged; so an upstream request for a key is only ever issued    *)
(* outside the window that the key's last write opened.                     *)
C3_CacheHit ==
    [][ (call'.op \in FetcherOps /\ InWindow(call'.key))
        => (/\ ~call'.issued
            /\ call'.ret = cache[call'.key].data
            /\ cache' = cache
            /\ writeTime' = writeTime) ]_vars

(* a hit at age 299 *)
C3_Witness ==
    /\ call.op \in FetcherOps
    /\ API_KEY # ""
    /\ ~call.issued
    /\ writeTime[call.key] = 0
    /\ now = 299
    /\ call.ret = cache[call.key].data
    /\ call.ret.shape = "dict"

----------------------------------------------------------------------------
(* Claims about the selection, checked under SpecSel                        *)

Pos(seq, x) == CHOOSE i \in 1..Len(seq) : seq[i] = x

(* the member dicts the stored selection holds, by value *)
SelectionContents ==
    [i \in 1..Len(cwl_team_selection.selected_members) |->
        heap[cwl_team_selection.selected_members[i]]]

(* C7: after a successful replace with tag set S the selection is exactly   *)
(* the members of the roster get_clan_members returned (the cached roster)  *)
(* whose tag is in S, each once and in roster order, whatever was selected  *)
(* before, and last_updated is the time of the replace.                     *)
C7_ReplaceTotal ==
    (call.op = "update_cwl_team_selection" /\ call.out = "ok")
    => LET roster == call.ret.items
           sel == cwl_team_selection.selected_members
       IN  /\ call.ret = cache["members"].data
           /\ \A i \in 1..Len(sel) :
                 sel[i] \in Range(roster) /\ heap[sel[i]].tag \in call.tags
           /\ \A a \in Range(roster) :
                 heap[a].tag \in call.tags => a \in Range(sel)
           /\ \A i, j \in 1..Len(sel) :
                 i < j => Pos(roster, sel[i]) < Pos(roster, sel[j])
           /\ cwl_team_selection.last_updated = now

(* an empty tag set clears a selection of two members *)
C7_Witness ==
    /\ call.op = "update_cwl_team_selection"
    /\ call.out = "ok"
    /\ call.tags = {}
    /\ Len(call.before) = 2
    /\ Len(call.ret.items) = 2
    /\ cwl_team_selection.selected_members = <<>>
    /\ cwl_team_selection.last_updated = 300

(* C8: the members held by the stored selection change, in any field, only  *)
(* through a replace.                                                        *)
C8_SnapshotIsolation ==
    [][ call'.op # "update_cwl_team_selection"
        => SelectionContents' = SelectionContents ]_vars

----------------------------------------------------------------------------
(* Claims about the roster sort and the leaderboards, checked under SpecSort *)

RoleRank(role) ==
    IF role = "leader" THEN 1
    ELSE IF role = "coLeader" THEN 2
    ELSE IF role = "elder" THEN 3
    ELSE IF role = "member" THEN 4
    ELSE 5

SameRoleTrophies(m1, m2) ==
    RoleRank(m1.role) = RoleRank(m2.role) /\ m1.trophies = m2.trophies

RoleTrophyOrdered(h, items) ==
    \A i \in 1..(Len(items) - 1) :
        LET m1 == h[items[i]]
            m2 == h[items[i + 1]]
        IN  \/ RoleRank(m1.role) < RoleRank(m2.role)
            \/ RoleRank(m1.role) = RoleRank(m2.role) /\ m1.trophies >= m2.trophies

TagPos(members, tag) == CHOOSE i \in 1..Len(members) : members[i].tag = tag

(* C9: the roster in cache['members'] and every roster get_clan_members     *)
(* returns is ordered by role rank ascending, then trophies descending; a   *)
(* freshly fetched roster holds exactly the upstream members, and members   *)
(* equal in role rank and trophies keep their upstream order.               *)
C9_RosterOrdering ==
    /\ cache["members"].data # NoData
       => RoleTrophyOrdered(heap, cache["members"].data.items)
    /\ (call.op = "get_clan_members" /\ is_success(call.ret))
       => RoleTrophyOrdered(heap, call.ret.items)
    /\ (call.op = "get_clan_members" /\ call.issued /\ is_success(call.resp.json))
       => LET up == call.resp.json.items
              out == call.ret.items
          IN  /\ Len(out) = Len(up)
              /\ \A i \in 1..Len(up) : \E j \in 1..Len(out) : heap[out[j]] = up[i]
              /\ \A i, j \in 1..Len(out) :
                    (i < j /\ SameRoleTrophies(heap[out[i]], heap[out[j]]))
                    => TagPos(up, heap[out[i]].tag) < TagPos(up, heap[out[j]].tag)

(* the upstream listed a member before the leader, and a roster with a tie *)
C9_Witness ==
    /\ call.op = "get_clan_members"
    /\ call.issued
    /\ is_success(call.ret)
    /\ Len(call.ret.items) = 2
    /\ heap[call.ret.items[1]].tag = "#2"
    /\ heap[call.ret.items[1]].role = "leader"
    /\ heap[call.ret.items[2]].role = "admin"

Metrics == <<"donations", "trophies", "donationsReceived">>

(* C10: each leaderboard has min(TopN, M) entries, all distinct roster      *)
(* members, in descending order of its metric; no omitted member has a      *)
(* strictly larger metric than a listed one; members of equal metric are    *)
(* listed in roster order.                                                  *)
C10_Leaderboards ==
    (call.op = "top_players" /\ call.out = "ok")
    => \A b \in 1..3 :
          LET roster == call.ret.items
              board == call.boards[b]
              M(a) == heap[a][Metrics[b]]
          IN  /\ Len(call.boards) = 3
              /\ Len(board) = Min(TopN, Len(roster))
              /\ \A i \in 1..Len(board) : board[i] \in Range(roster)
              /\ \A i, j \in 1..Len(board) :
                    i < j => /\ board[i] # board[j]
                             /\ M(board[i]) >= M(board[j])
                             /\ M(board[i]) = M(board[j])
                                => Pos(roster, board[i]) < Pos(roster, board[j])
              /\ \A a \in Range(roster) \ Range(board) :
                    \A i \in 1..Len(board) : M(a) <= M(board[i])

(* 21 members: the last one gave the most and heads the donations board,    *)
(* the first one gave the least and is left out                             *)
C10_Witness ==
    /\ call.op = "top_players"
    /\ call.out = "ok"
    /\ Len(call.ret.items) = TopN + 1
    /\ Len(call.boards[1]) = TopN
    /\ heap[call.boards[1][1]].tag = TagAt(TopN + 1)
    /\ heap[call.ret.items[1]].donations = 0
    /\ call.ret.items[1] \notin Range(call.boards[1])

----------------------------------------------------------------------------
(* Claims about concurrent requests, checked under SpecThreads              *)

(* C4: in every reachable state, also between the steps of fetchers running *)
(* on several threads, a key's timestamp is set if and only if its data is  *)
(* a successfully fetched payload.                                           *)
C4_EntryInvariant ==
    \A k \in Keys :
        (cache[k].timestamp # None)
        <=> (cache[k].data # NoData /\ is_success(cache[k].data))

(* C5: no entry holds data written by one fetch next to a timestamp written *)
(* by another; stated for the entries a reader accepts, those that          *)
(* is_cache_valid finds fresh.                                               *)
C5_NoTornEntry ==
    \A k \in Keys :
        is_cache_valid(cache, k, now) => writer[k].data = writer[k].timestamp

(* C6: once the concurrent replace requests have completed, selected_members *)
(* and last_updated were both written by the same request.                  *)
C6_NoMixedUpdate ==
    (\A t \in Threads : threads[t].pc = "idle")
    => selWriter.selected_members = selWriter.last_updated

----------------------------------------------------------------------------
(* Claims about the war statistics, checked under SpecWar                   *)

(* the positions of the war log whose record has the given result *)
WithResult(h, wars, result) == { i \in 1..Len(wars) : h[wars[i]].result = result }

(* C11: war_stats_api reports wins, losses and draws equal to the numbers   *)
(* of 'win', 'lose' and 'tie' records of the war log, which add up to its   *)
(* length when every record has one of the three results; stars_trend,      *)
(* our_destruction, opponent_destruction and war_results have the length of *)
(* the war log and element i is taken from record i.                        *)
C11_WarStats ==
    (call.op = "war_stats_api" /\ call.out = "ok")
    => LET wars == call.ret.items
           v == call.boards
           n == Len(wars)
       IN  /\ v.win_loss.wins = Cardinality(WithResult(heap, wars, "win"))
           /\ v.win_loss.losses = Cardinality(WithResult(heap, wars, "lose"))
           /\ v.win_loss.draws = Cardinality(WithResult(heap, wars, "tie"))
           /\ (\A i \in 1..n : heap[wars[i]].result \in {"win", "lose", "tie"})
              => v.win_loss.wins + v.win_loss.losses + v.win_loss.draws = n
           /\ Len(v.stars_trend) = n
           /\ Len(v.our_destruction) = n
           /\ Len(v.opponent_destruction) = n
           /\ Len(v.war_results) = n
           /\ \A i \in 1..n :
                 LET war == heap[wars[i]]
                 IN  /\ v.stars_trend[i] = war.clan.stars
                     /\ v.our_destruction[i] = war.clan.destructionPercentage
                     /\ v.opponent_destruction[i] = war.opponent.destructionPercentage
                     /\ v.war_results[i].result = war.result
                     /\ v.war_results[i].opponent = war.opponent.name
                     /\ v.war_results[i].our_stars = war.clan.stars
                     /\ v.war_results[i].opponent_stars = war.opponent.stars
                     /\ v.war_results[i].our_destruction = war.clan.destructionPercentage
                     /\ v.war_results[i].opponent_destruction
                            = war.opponent.destructionPercentage

(* a lost war followed by a won one with another score line *)
C11_Witness ==
    /\ call.op = "war_stats_api"
    /\ call.out = "ok"
    /\ call.issued
    /\ Len(call.ret.items) = 2
    /\ call.boards.win_loss = [wins |-> 1, losses |-> 1, draws |-> 0]
    /\ call.boards.stars_trend = <<0, 1>>
    /\ call.boards.war_results[1].result = "lose"
    /\ call.boards.opponent_destruction = <<40, 39>>

----------------------------------------------------------------------------
(* Further claims about the cached fetchers, checked under Spec             *)

(* what make_api_request returns for a failing status *)
FailureResult(s) == make_api_request("key", [status |-> s, json |-> NoData])

(* C12: when the upstream answers 429 to the roster request of a cache      *)
(* miss, get_clan_members returns the error "API rate limit exceeded",      *)
(* which differs from what it returns for 403, for another failing status   *)
(* and for a transport failure, and the 'members' entry, empty or stale,    *)
(* keeps its data, the members in it and its timestamp.                     *)
C12_RateLimited ==
    [][ (/\ call'.op = "get_clan_members"
         /\ call'.issued
         /\ call'.resp.status = 429)
        => (/\ call'.ret = ErrDict("API rate limit exceeded")
            /\ \A s \in ErrorStatuses \ {429} : FailureResult(s) # call'.ret
            /\ cache'["members"] = cache["members"]
            /\ \A a \in Range(cache["members"].data.items) : heap'[a] = heap[a]
            /\ writeTime'["members"] = writeTime["members"]) ]_vars

(* a 429 on the refresh of a stale roster of two members *)
C12_Witness ==
    /\ call.op = "get_clan_members"
    /\ call.issued
    /\ call.resp.status = 429
    /\ call.ret.error = "API rate limit exceeded"
    /\ Len(cache["members"].data.items) = 2
    /\ cache["members"].timestamp = 0
    /\ now = 300

----------------------------------------------------------------------------
(* Claims about the fetchers without a cache entry, checked under SpecDirect *)

(* what a call of one of the three leaves alone: every cache entry, the     *)
(* members they hold, the selection and the recorded write times            *)
DirectFrame ==
    /\ cache' = cache
    /\ cwl_team_selection' = cwl_team_selection
    /\ heap' = heap
    /\ writeTime' = writeTime

Prefix == [op \in {"get_league_war", "get_player"} |->
              IF op = "get_player" THEN "/players/" ELSE "/clanwarleagues/wars/"]

(* C14: the path get_league_war and get_player request is the resource      *)
(* prefix followed by the tag; a tag that begins with '#' appears with      *)
(* "%23" in place of it, the characters after it following (and no '#'      *)
(* left in the path), and a tag that does not begin with '#' appears        *)
(* unchanged.                                                               *)
C14_TagEncoding ==
    call.op \in {"get_league_war", "get_player"}
    => LET tag == call.arg
           seg == Tail(call.endpoint)
       IN  /\ Head(call.endpoint) = Prefix[call.op]
           /\ (tag # <<>> /\ Head(tag) = "#")
              => /\ SubSeq(seg, 1, 3) = <<"%", "2", "3">>
                 /\ "#" \notin Range(seg)
                 /\ "#" \notin Range(Tail(tag))
                    => seg = <<"%", "2", "3">> \o Tail(tag)
           /\ ~(tag # <<>> /\ Head(tag) = "#") => seg = tag

(* "#ABC12" requested as "%23ABC12" *)
C14_Witness ==
    /\ call.op = "get_player"
    /\ call.issued
    /\ call.arg = <<"#", "A", "B", "C", "1", "2">>
    /\ call.endpoint = <<"/players/", "%", "2", "3", "A", "B", "C", "1", "2">>

----------------------------------------------------------------------------
(* Claim about startup, checked under SpecStartup                           *)

(* C15: when API_KEY is missing or CLAN_TAG does not match the required     *)
(* format, no request is ever served: no handler runs and no upstream       *)
(* request is issued.                                                       *)
C15_FatalConfigError ==
    ~ConfigValid => (call.op \in {"init", "tick"} /\ ~call.issued)

----------------------------------------------------------------------------
(* Claims about the payloads and about errors                               *)

(* the payload of a cache entry by value: the data and the dicts it holds *)
CachedPayload(k) ==
    [data |-> cache[k].data,
     dicts |-> [i \in 1..Len(cache[k].data.items) |-> heap[cache[k].data.items[i]]]]

(* C16 (SpecSel): the payload of a cache entry, the fields of the dicts in  *)
(* it included, changes only in a step in which the fetcher of that key     *)
(* got a successful upstream answer.                                        *)
C16_OwnerOnlyMutation ==
    [][ \A k \in Keys :
           CachedPayload(k)' # CachedPayload(k)
           => (call'.key = k /\ call'.issued /\ is_success(call'.resp.json)) ]_vars

(* C17 (Spec): whenever the upstream request of a cache miss is answered    *)
(* 2xx with a JSON body, of whatever shape and keys, the fetcher stores the *)
(* payload it returns with the current time, so that the entry is fresh.    *)
C17_EverySuccessCached ==
    [][ (/\ call'.op \in FetcherOps
         /\ call'.issued
         /\ call'.resp.status = 200)
        => (/\ cache'[call'.key].data = call'.ret
            /\ cache'[call'.key].timestamp = now
            /\ is_cache_valid(cache', call'.key, now)) ]_vars

(* what a fetcher call that issued a request returns: the payload it stored *)
(* or the error (or unusable body) of that very request                     *)
AnsweredByOwnRequest ==
    /\ call'.issued
    /\ call'.ret = IF is_success(call'.resp.json) /\ call'.resp.status = 200
                   THEN cache'[call'.key].data
                   ELSE make_api_request(API_KEY, call'.resp)

(* C18 (SpecRetry): a fetcher call issues a request whenever API_KEY is set *)
(* and its entry is not fresh, in particular when the call before it was a  *)
(* call of the same fetcher that returned an upstream error, and it is      *)
(* answered by that request, not by the earlier error or the stale entry;   *)
(* a failed call leaves the entry as it was, so this goes on until a        *)
(* request succeeds.                                                        *)
C18_RetryOnNextCall ==
    [][ /\ (/\ call'.op \in FetcherOps
            /\ call.op = call'.op
            /\ call.issued
            /\ is_error(call.ret))
           => (AnsweredByOwnRequest
               /\ is_error(call'.ret) => cache' = cache)
        /\ (/\ call'.op \in FetcherOps
            /\ API_KEY # ""
            /\ ~InWindow(call'.key))
           => AnsweredByOwnRequest ]_vars

(* the refresh of a stale roster fails twice in a row *)
C18_Witness ==
    /\ call.op = "get_clan_members"
    /\ call.repeat
    /\ call.issued
    /\ call.resp.status = 0
    /\ is_error(call.ret)
    /\ Len(cache["members"].data.items) = 2
    /\ cache["members"].timestamp = 0
    /\ now = 300

----------------------------------------------------------------------------
(* Further claims about concurrent requests (SpecThreads) and about the     *)
(* selection (SpecSel)                                                      *)

(* C19: in every state, those between the steps of concurrent fetchers      *)
(* included, a key whose timestamp is set holds a successfully fetched      *)
(* payload, and a fetcher that found its entry fresh and is about to return *)
(* the cached data (line 85) returns such a payload, never None.            *)
C19_HitNeverAbsent ==
    /\ \A k \in Keys :
          cache[k].timestamp # None
          => (cache[k].data # NoData /\ is_success(cache[k].data))
    /\ \A t \in Threads :
          threads[t].pc = "return_cached"
          => (/\ cache[threads[t].key].data # NoData
              /\ is_success(cache[threads[t].key].data))

(* two fetchers missed the same key; one has written data and timestamp,    *)
(* the other has overwritten the data and not yet the timestamp             *)
C19_Witness ==
    \E k \in Keys : \E t \in Threads :
        /\ cache[k].timestamp # None
        /\ threads[t].pc = "write_timestamp"
        /\ threads[t].key = k
        /\ writer[k].data = threads[t].id
        /\ writer[k].timestamp # threads[t].id
        /\ is_success(cache[k].data)

(* C20: a replace request whose get_clan_members call returns an error      *)
(* leaves selected_members, the members in it and last_updated as they      *)
(* were, whatever tags were submitted.                                      *)
C20_FailedReplaceKeeps ==
    [][ (call'.op = "update_cwl_team_selection" /\ is_error(call'.ret))
        => (/\ cwl_team_selection' = cwl_team_selection
            /\ SelectionContents' = SelectionContents) ]_vars

(* a replace of a one-member selection by two tags fails on a 429 *)
C20_Witness ==
    /\ call.op = "update_cwl_team_selection"
    /\ call.issued
    /\ call.resp.status = 429
    /\ is_error(call.ret)
    /\ Cardinality(call.tags) = 2
    /\ Len(call.before) = 1
    /\ Len(cwl_team_selection.selected_members) = 1
    /\ cwl_team_selection.last_updated = 0
    /\ now = 300

====
